---- MODULE Spec2Model ----
(***************************************************************************)
(* A model of cms_hospitals_downloader.py: the header normalizer           *)
(* (to_snake_case), the validator probe (head_info), the download pipeline *)
(* (download_csv), the per-distribution orchestration                      *)
(* (process_distribution) and the batch runner (main_async).               *)
(***************************************************************************)
EXTENDS Integers, Sequences, FiniteSets, TLC

VARIABLES
    hdr,        \* to_snake_case: the raw header s (a sequence of characters)
    out,        \* to_snake_case: the value returned for hdr, or Unset
    out2,       \* to_snake_case applied to out, or Unset
    mainpc,     \* main_async: "idle", "listing", "gather", "done", "aborted"
    run,        \* number of runs of the program started so far
    catalog,    \* the (dataset id, distribution) pairs the listing yields
    capacity,   \* the admission gate's limit (CONCURRENT_DOWNLOADS, scaled)
    items,      \* main_async: what lines 295-307 made of the listing response
    metadata,   \* the in-memory ledger: composite key -> entry
    ledgerFile, \* metadata.json on disk
    saves,      \* number of save_metadata calls of the current run
    fs,         \* the files under OUTPUT_DIR: path -> content
    pc,         \* process_distribution: each task's position
    info,       \* process_distribution: what head_info returned to the task
    fd,         \* download_csv: where the file the task has open now lives
    semaphore,  \* asyncio.Semaphore: free slots
    cpu,        \* the task running between two awaits (0: all are suspended)
    resp        \* head_info: the outcome of the probe being handled

normvars == <<hdr, out, out2>>
sysvars == <<mainpc, run, catalog, capacity, items, metadata, ledgerFile, saves, fs, pc, info, fd,
             semaphore, cpu, resp>>
taskvars == <<pc, info, fd, semaphore, cpu, resp>>
vars == <<normvars, sysvars>>

Unset == <<"unset">>

(***************************************************************************)
(* Header normalizer: to_snake_case.  A string is a sequence of one-        *)
(* character strings.  The alphabet holds one representative of each class  *)
(* the regular expressions of the function tell apart.                      *)
(***************************************************************************)
MaxLen == 4

Lower  == {"a", "b"}
Upper  == {"A"}
Digit  == {"1"}
Under  == {"_"}
White  == {" "}
Symbol == {"-"}
Alphabet == Lower \cup Upper \cup Digit \cup Under \cup White \cup Symbol

IsWord(c)  == c \in Lower \cup Upper \cup Digit \cup Under      \* \w
IsSpace(c) == c \in White                                       \* \s
IsAlnum(c) == c \in Lower \cup Upper \cup Digit

ToLower(c) == IF c = "A" THEN "a" ELSE c

\* re.sub(r"[^\w\s]", " ", s)
ReplaceSpecial(s) ==
    [i \in 1..Len(s) |-> IF IsWord(s[i]) \/ IsSpace(s[i]) THEN s[i] ELSE " "]

\* re.sub(r"\s+", " ", s): every run of whitespace becomes one space
RECURSIVE CollapseSpace(_)
CollapseSpace(s) ==
    IF s = <<>> THEN <<>>
    ELSE IF IsSpace(Head(s))
         THEN IF Len(s) > 1 /\ IsSpace(s[2])
              THEN CollapseSpace(Tail(s))
              ELSE <<" ">> \o CollapseSpace(Tail(s))
         ELSE <<Head(s)>> \o CollapseSpace(Tail(s))

\* str.strip()
RECURSIVE LStrip(_)
LStrip(s) == IF s # <<>> /\ IsSpace(Head(s)) THEN LStrip(Tail(s)) ELSE s

RECURSIVE RStrip(_)
RStrip(s) ==
    IF s # <<>> /\ IsSpace(s[Len(s)]) THEN RStrip(SubSeq(s, 1, Len(s) - 1)) ELSE s

Strip(s) == RStrip(LStrip(s))

\* re.sub(r"(?<=[a-z0-9])([A-Z])", r" \1", s), scanning from position i
RECURSIVE SplitCamelFrom(_, _)
SplitCamelFrom(s, i) ==
    IF i > Len(s) THEN <<>>
    ELSE (IF i > 1 /\ s[i] \in Upper /\ s[i - 1] \in Lower \cup Digit
          THEN <<" ", s[i]>>
          ELSE <<s[i]>>) \o SplitCamelFrom(s, i + 1)

SplitCamel(s) == SplitCamelFrom(s, 1)

\* s.split(" "): the parts between single spaces, empty parts included
RECURSIVE SplitOnSpace(_, _)
SplitOnSpace(s, cur) ==
    IF s = <<>> THEN <<cur>>
    ELSE IF Head(s) = " "
         THEN <<cur>> \o SplitOnSpace(Tail(s), <<>>)
         ELSE SplitOnSpace(Tail(s), Append(cur, Head(s)))

\* re.sub(r"[_\s]+", "_", p).lower()
RECURSIVE SanitizePart(_)
SanitizePart(p) ==
    IF p = <<>> THEN <<>>
    ELSE IF Head(p) \in Under \cup White
         THEN IF Len(p) > 1 /\ p[2] \in Under \cup White
              THEN SanitizePart(Tail(p))
              ELSE <<"_">> \o SanitizePart(Tail(p))
         ELSE <<ToLower(Head(p))>> \o SanitizePart(Tail(p))

\* [sanitize(p) for p in parts if p != ""]
RECURSIVE SanitizeParts(_)
SanitizeParts(parts) ==
    IF parts = <<>> THEN <<>>
    ELSE IF Head(parts) = <<>>
         THEN SanitizeParts(Tail(parts))
         ELSE <<SanitizePart(Head(parts))>> \o SanitizeParts(Tail(parts))

\* "_".join(parts)
RECURSIVE JoinUnderscore(_)
JoinUnderscore(parts) ==
    IF parts = <<>> THEN <<>>
    ELSE IF Len(parts) = 1 THEN Head(parts)
         ELSE Head(parts) \o <<"_">> \o JoinUnderscore(Tail(parts))

NoneHdr == <<"None">>

to_snake_case(s) ==
    IF s = NoneHdr THEN <<>> ELSE
    JoinUnderscore(SanitizeParts(SplitOnSpace(
        SplitCamel(Strip(CollapseSpace(ReplaceSpecial(s)))), <<>>)))

Strings == UNION {[1..n -> Alphabet] : n \in 0..MaxLen}

(***************************************************************************)
(* Data of the synchronization engine.                                      *)
(***************************************************************************)
\* The limit of the admission gate, scaled down from the program's 8.  The
\* model runs under every limit up to this one, so that batches smaller and
\* larger than the gate both occur.
CONCURRENT_DOWNLOADS == 2
MaxDists == 2               \* distributions in the catalog
MaxItems == 2               \* items of the listing
MaxRuns == 2                \* consecutive runs of the program

None == "None"              \* Python's None, for an optional string

\* A file name is <<stem, suffix>>; NoName is a missing (or empty) name.
NoName == <<>>

\* Path.with_suffix(".tmp")
with_suffix_tmp(name) == <<name[1], "tmp">>

\* URLs: an identity and the name of the last path segment.  The first two end
\* in the same file name; the fourth is no CSV file.
U1 == [id |-> "u1", name |-> <<"a", "csv">>]
U2 == [id |-> "u2", name |-> <<"a", "csv">>]
U3 == [id |-> "u3", name |-> <<"x", "csv">>]
U4 == [id |-> "u4", name |-> <<"a", "pdf">>]
NoUrl == [id |-> "none", name |-> NoName]

\* Entries of an item's distribution lists: the url and the filename or title
\* found at lines 158-159.
E1 == [url |-> U1, filename |-> NoName]
E2 == [url |-> U2, filename |-> NoName]
E3 == [url |-> U3, filename |-> <<"b", "csv">>]
E4 == [url |-> U4, filename |-> NoName]

\* line 149: the fields of an item that may list its files
DistFields == <<"distributions", "assets", "resources", "files", "distribution">>

\* The items of the listing that match the theme: dataset d1 lists its files
\* under two fields and may have a download URL of its own, dataset d2 under
\* one field.
Items ==
    {[id |-> "d1", fields |-> ("distributions" :> a @@ "distribution" :> b),
      downloadURL |-> w] :
        a \in {<<>>, <<E1>>, <<E2>>, <<E4, E1>>}, b \in {<<>>, <<E1>>, <<E2>>},
        w \in {NoUrl, U1}}
    \cup {[id |-> "d2", fields |-> ("resources" :> a), downloadURL |-> NoUrl] :
            a \in {<<>>, <<E3>>, <<E3, E3>>}}

Listings == UNION {[1..n -> Items] : n \in 0..MaxItems}

\* line 150: item.get(key), nothing if the field is missing
Get(item, key) == IF key \in DOMAIN item.fields THEN item.fields[key] ELSE <<>>

\* line 162: the url ends in .csv
IsCsv(url) == url # NoUrl /\ url.name[2] = "csv"

\* lines 155-163: the CSV entries of one list
CsvEntries(entries) == SelectSeq(entries, LAMBDA e : IsCsv(e.url))

\* lines 149-163: the lists of every field, one after the other
RECURSIVE FromFields(_, _)
FromFields(item, i) ==
    IF i > Len(DistFields) THEN <<>>
    ELSE CsvEntries(Get(item, DistFields[i])) \o FromFields(item, i + 1)

\* find_csv_distributions: lines 166-171 fall back to the item's own url
find_csv_distributions(item) ==
    LET distributions == FromFields(item, 1) IN
    IF distributions # <<>> THEN distributions
    ELSE IF IsCsv(item.downloadURL)
         THEN <<[url |-> item.downloadURL, filename |-> NoName]>>
         ELSE <<>>

\* lines 323-333: one task per distribution of every item, with the item's id
RECURSIVE TasksOf(_)
TasksOf(listing) ==
    IF listing = <<>> THEN <<>>
    ELSE LET ds == Head(listing)
             dists == find_csv_distributions(ds)
         IN [i \in 1..Len(dists) |->
                [ds |-> ds.id, url |-> dists[i].url, filename |-> dists[i].filename]]
            \o TasksOf(Tail(listing))

\* The (dataset id, distribution) pairs the listings can yield.
DistSeq ==
    << [ds |-> "d1", url |-> U1, filename |-> NoName],
       [ds |-> "d1", url |-> U2, filename |-> NoName],
       [ds |-> "d2", url |-> U3, filename |-> <<"b", "csv">>] >>

DistIndex(d) == CHOOSE i \in DOMAIN DistSeq : DistSeq[i] = d

\* The task lists of the listings, up to MaxDists tasks; of the lists that
\* differ only in the order of their tasks one is kept (the order of the tasks
\* of a batch is irrelevant).
Catalogs ==
    {c \in {TasksOf(l) : l \in Listings} :
        /\ Len(c) <= MaxDists
        /\ \A i \in 1..(Len(c) - 1) : DistIndex(c[i]) <= DistIndex(c[i + 1])}

Tasks == DOMAIN catalog

\* filename = dist.get("filename") or Path(url).name.split("?")[0]
Filename(dist) == IF dist.filename # NoName THEN dist.filename ELSE dist.url.name

\* dest_path = OUTPUT_DIR / dataset_id / filename
DestPath(dist) == <<dist.ds>> \o Filename(dist)

\* tmp = dest_path.with_suffix(".tmp")
TmpPath(dist) == <<dist.ds>> \o with_suffix_tmp(Filename(dist))

\* key = f"{dataset_id}::{url}"
Key(dist) == <<dist.ds, dist.url.id>>

Dest(t) == DestPath(catalog[t])
Tmp(t) == TmpPath(catalog[t])
KeyOf(t) == Key(catalog[t])

Paths == {DestPath(DistSeq[i]) : i \in DOMAIN DistSeq}
             \cup {TmpPath(DistSeq[i]) : i \in DOMAIN DistSeq}

\* File contents.  "partial" is a file being written or cut short, "garbled" one
\* that two writers wrote at once, "raw" a whole downloaded file and "norm" a
\* whole file with normalized headers; key and run say whose whole file it is.
NoKey == <<>>
Absent == [st |-> "absent", key |-> NoKey, run |-> 0]
Partial == [st |-> "partial", key |-> NoKey, run |-> 0]
Garbled == [st |-> "garbled", key |-> NoKey, run |-> 0]
Raw(k, r) == [st |-> "raw", key |-> k, run |-> r]
Norm(k, r) == [st |-> "norm", key |-> k, run |-> r]

Exists(p) == fs[p] # Absent
Complete(c) == c.st \in {"raw", "norm"}

\* An open file is known by the path it is linked at now (Unlinked: it was
\* unlinked or replaced while open); it is stale once another open truncated it.
NoPath == <<>>
Unlinked == <<"unlinked">>
NoFd == [path |-> NoPath, stale |-> FALSE]
Handle(p) == [path |-> p, stale |-> FALSE]

\* Response headers a server may send.  Validators are only ever compared for
\* equality, so the n-th run needs at most n distinct values of each.
EtagSeq == <<"e1", "e2", "e3">>
LastModifiedSeq == <<"m1", "m2", "m3">>
Etags == {None} \cup {EtagSeq[i] : i \in 1..run}
LastModifieds == {None} \cup {LastModifiedSeq[i] : i \in 1..run}
NoInfo == [last_modified |-> None, etag |-> None]

\* The data frame pandas reads from a downloaded file.
DataFrames == {[rows |-> 3, cols |-> 2]}

\* metadata.json: missing, unreadable, or a JSON object (its members).
Missing == [st |-> "missing", doc |-> {}]
Corrupt == [st |-> "corrupt", doc |-> {}]

\* json.dumps(meta, indent=2): one member per key
dumps(meta) == {<<k, meta[k]>> : k \in DOMAIN meta}

\* json.loads(text)
loads(doc) == [k \in {m[1] : m \in doc} |-> (CHOOSE m \in doc : m[1] = k)[2]]

\* load_metadata
load_metadata ==
    IF ledgerFile.st = "missing" THEN <<>>
    ELSE IF ledgerFile.st = "corrupt" THEN <<>>
    ELSE loads(ledgerFile.doc)

\* save_metadata
save_metadata(meta) == [st |-> "ok", doc |-> dumps(meta)]

EmptyLedger == [k \in {} |-> NoInfo]

\* The states of the spec's orchestration state machine.
Probing == {"Head", "Get", "Compare"}
Fetching == {"Request", "Streaming", "Downloaded", "Replaced", "Rewriting"}
Terminal == {"SkippedUnchanged", "Processed", "Failed"}

NoResp == [head |-> "none", requests |-> 0]

(***************************************************************************)
(* File system primitives, as download_csv and pandas use them.             *)
(***************************************************************************)
\* open(p, "w"): the file linked at p is created or truncated; what other
\* handles wrote to it is gone, and what they write from now on lands at their
\* old offsets
Truncate(f, p) == [f EXCEPT ![p] = Partial]
FdAfterTruncate(g, p) ==
    [u \in DOMAIN g |-> IF g[u].path = p THEN [g[u] EXCEPT !.stale = TRUE] ELSE g[u]]

\* f.write(chunk) through handle h (nothing visible if the file is unlinked)
WriteChunk(f, h) ==
    IF h.path \in Paths
    THEN [f EXCEPT ![h.path] = IF h.stale \/ f[h.path] # Partial THEN Garbled ELSE Partial]
    ELSE f

\* the last chunk is written through handle h and the file closed
CloseWhole(f, h, whole) ==
    IF h.path \in Paths
    THEN [f EXCEPT ![h.path] = IF h.stale \/ f[h.path] # Partial THEN Garbled ELSE whole]
    ELSE f

\* Path.unlink: the name goes, files still open live on unlinked
Unlink(f, p) == [f EXCEPT ![p] = Absent]
FdAfterUnlink(g, p) ==
    [u \in DOMAIN g |-> IF g[u].path = p THEN [g[u] EXCEPT !.path = Unlinked] ELSE g[u]]

\* Path.replace: src's file is linked at dst, whose old file is unlinked
Replace(f, src, dst) == [f EXCEPT ![dst] = f[src], ![src] = Absent]
FdAfterReplace(g, src, dst) ==
    [u \in DOMAIN g |-> IF g[u].path = src THEN [g[u] EXCEPT !.path = dst]
                        ELSE IF g[u].path = dst THEN [g[u] EXCEPT !.path = Unlinked]
                        ELSE g[u]]

(***************************************************************************)
(* main_async                                                               *)
(***************************************************************************)
AllTerminal == \A t \in Tasks : pc[t] \in Terminal

\* lines 287-296: ensure_dirs, load_metadata, the listing request is sent
StartRun ==
    /\ mainpc \in {"idle", "done", "aborted"}
    /\ run < MaxRuns
    /\ run' = run + 1
    /\ metadata' = load_metadata
    /\ saves' = 0
    /\ mainpc' = "listing"
    /\ pc' = [t \in Tasks |-> "Idle"]
    /\ info' = [t \in Tasks |-> NoInfo]
    /\ fd' = [t \in Tasks |-> NoFd]
    /\ semaphore' = 0
    /\ items' = "unset"
    /\ UNCHANGED normvars
    /\ UNCHANGED <<catalog, capacity, ledgerFile, fs, cpu, resp>>

\* lines 297-299: fetch_json raises (network error, timeout, HTTP error status)
ListingFails ==
    /\ mainpc = "listing"
    /\ mainpc' = "aborted"
    /\ items' = "raised"
    /\ UNCHANGED normvars
    /\ UNCHANGED <<run, catalog, capacity, metadata, ledgerFile, saves, fs, taskvars>>

\* What the listing's JSON may be: a list, a dict holding the list under a
\* known or an unknown name, or something else.
ListingShapes == {"list", "data", "items", "results", "otherdict", "scalar"}

\* lines 301-307
ListingAccepted(shape) == shape # "scalar"
ListingHasItems(shape) == shape \in {"list", "data", "items", "results"}

\* lines 301-307: the value of items after them: the list found in the response,
\* the default [] of line 304, or no list
ItemsOf(shape) ==
    IF ListingHasItems(shape) THEN "found"
    ELSE IF ListingAccepted(shape) THEN "default"
    ELSE "notlist"

\* lines 301-338: the listing arrives; the tasks are created and gathered
ListingArrives ==
    /\ mainpc = "listing"
    /\ \E shape \in ListingShapes :
         IF ListingAccepted(shape)
         THEN /\ mainpc' = "gather"
              /\ pc' = [t \in Tasks |->
                          IF ListingHasItems(shape) THEN "Pending" ELSE "Idle"]
              /\ semaphore' = capacity
              /\ items' = ItemsOf(shape)
         ELSE /\ mainpc' = "aborted"
              /\ items' = ItemsOf(shape)
              /\ UNCHANGED <<pc, semaphore>>
    /\ UNCHANGED normvars
    /\ UNCHANGED <<run, catalog, capacity, metadata, ledgerFile, saves, fs, info, fd,
                   cpu, resp>>

\* a bug: the batch is left as soon as one task has returned
GatherReturned_FirstDone == \E t \in Tasks : pc[t] \in Terminal

\* lines 335-338: await asyncio.gather(*tasks) returns once every task has
\* returned (at once if there is none)
GatherReturned == \A t \in Tasks : pc[t] \in Terminal \cup {"Idle"}

\* lines 335-341: gather has returned, the session is closed, the ledger saved
SaveMetadata ==
    /\ mainpc = "gather"
    /\ cpu = 0
    /\ GatherReturned
    /\ ledgerFile' = save_metadata(metadata)
    /\ saves' = saves + 1
    /\ mainpc' = "done"
    /\ UNCHANGED normvars
    /\ UNCHANGED <<run, catalog, capacity, items, metadata, fs, taskvars>>

(***************************************************************************)
(* head_info and the comparison of process_distribution.                    *)
(***************************************************************************)
\* a bug: a task starts without waiting for a free slot
Acquire_NoGate(t) ==
    /\ mainpc = "gather"
    /\ cpu = 0
    /\ pc[t] = "Pending"
    /\ semaphore' = semaphore - 1
    /\ pc' = [pc EXCEPT ![t] = "Head"]
    /\ UNCHANGED normvars
    /\ UNCHANGED <<mainpc, run, catalog, capacity, items, metadata, ledgerFile, saves,
                   fs, info, fd, cpu, resp>>

\* line 234: async with semaphore; line 236: the HEAD request is sent
Acquire(t) ==
    /\ mainpc = "gather"
    /\ cpu = 0
    /\ pc[t] = "Pending"
    /\ semaphore > 0
    /\ semaphore' = semaphore - 1
    /\ pc' = [pc EXCEPT ![t] = "Head"]
    /\ UNCHANGED normvars
    /\ UNCHANGED <<mainpc, run, catalog, capacity, items, metadata, ledgerFile, saves, fs, info, fd, cpu, resp>>

\* HTTP statuses of a HEAD response: session.head raises for none of them
HeadStatuses == {200, 405}

\* lines 180-184: the HEAD response arrives, whatever its status
HeadResponds(t) ==
    /\ cpu = 0
    /\ pc[t] = "Head"
    /\ \E status \in HeadStatuses, e \in Etags, lm \in LastModifieds :
         /\ status = 405 => e = None /\ lm = None
         /\ info' = [info EXCEPT ![t] = [last_modified |-> lm, etag |-> e]]
         /\ resp' = [head |-> IF status = 200 THEN "ok" ELSE "not_allowed",
                     requests |-> 1]
    /\ pc' = [pc EXCEPT ![t] = "Compare"]
    /\ cpu' = t
    /\ UNCHANGED normvars
    /\ UNCHANGED <<mainpc, run, catalog, capacity, items, metadata, ledgerFile, saves, fs, fd, semaphore>>

\* lines 185-189: session.head raises; the fallback GET is sent
HeadRaises(t) ==
    /\ cpu = 0
    /\ pc[t] = "Head"
    /\ pc' = [pc EXCEPT ![t] = "Get"]
    /\ UNCHANGED normvars
    /\ UNCHANGED <<mainpc, run, catalog, capacity, items, metadata, ledgerFile, saves, fs, info, fd,
                   semaphore, cpu, resp>>

\* lines 189-192: the fallback GET's response arrives
GetResponds(t) ==
    /\ cpu = 0
    /\ pc[t] = "Get"
    /\ \E e \in Etags, lm \in LastModifieds :
         info' = [info EXCEPT ![t] = [last_modified |-> lm, etag |-> e]]
    /\ resp' = [head |-> "raised", requests |-> 2]
    /\ pc' = [pc EXCEPT ![t] = "Compare"]
    /\ cpu' = t
    /\ UNCHANGED normvars
    /\ UNCHANGED <<mainpc, run, catalog, capacity, items, metadata, ledgerFile, saves, fs, fd, semaphore>>

\* lines 193-195: the fallback GET raises as well
GetRaises(t) ==
    /\ cpu = 0
    /\ pc[t] = "Get"
    /\ info' = [info EXCEPT ![t] = NoInfo]
    /\ resp' = [head |-> "raised", requests |-> 2]
    /\ pc' = [pc EXCEPT ![t] = "Compare"]
    /\ cpu' = t
    /\ UNCHANGED normvars
    /\ UNCHANGED <<mainpc, run, catalog, capacity, items, metadata, ledgerFile, saves, fs, fd, semaphore>>

\* metadata.get(key, {}).get(field)
Prev(meta, k, field) == IF k \in DOMAIN meta THEN meta[k][field] ELSE None

\* line 245: if remote_etag and prev_etag and remote_etag == prev_etag
EtagUnchanged(i, meta, k) ==
    /\ i.etag # None
    /\ Prev(meta, k, "etag") # None
    /\ i.etag = Prev(meta, k, "etag")

\* a bug: two missing last-modified values count as equal
LastModifiedUnchanged_NoneEqual(i, meta, k) ==
    i.last_modified = Prev(meta, k, "last_modified")

\* line 250: if remote_lm and prev_lm and remote_lm == prev_lm
LastModifiedUnchanged(i, meta, k) ==
    /\ i.last_modified # None
    /\ Prev(meta, k, "last_modified") # None
    /\ i.last_modified = Prev(meta, k, "last_modified")

\* a bug: the etag test is left out
SkipDownload_LastModifiedOnly(i, meta, k) == LastModifiedUnchanged(i, meta, k)

\* lines 245-252: the two tests that end in "Skipping download"
SkipDownload(i, meta, k) ==
    EtagUnchanged(i, meta, k) \/ LastModifiedUnchanged(i, meta, k)

\* a bug: a skipped task returns without freeing its slot
Skip_KeepsSlot(t) ==
    /\ cpu = t
    /\ pc[t] = "Compare"
    /\ SkipDownload(info[t], metadata, KeyOf(t))
    /\ pc' = [pc EXCEPT ![t] = "SkippedUnchanged"]
    /\ info' = [info EXCEPT ![t] = NoInfo]
    /\ cpu' = 0
    /\ resp' = NoResp
    /\ UNCHANGED normvars
    /\ UNCHANGED <<mainpc, run, catalog, capacity, items, metadata, ledgerFile, saves,
                   fs, fd, semaphore>>

\* lines 237-252: unchanged validators; the task returns and frees its slot
Skip(t) ==
    /\ cpu = t
    /\ pc[t] = "Compare"
    /\ SkipDownload(info[t], metadata, KeyOf(t))
    /\ pc' = [pc EXCEPT ![t] = "SkippedUnchanged"]
    /\ info' = [info EXCEPT ![t] = NoInfo]
    /\ semaphore' = semaphore + 1
    /\ cpu' = 0
    /\ resp' = NoResp
    /\ UNCHANGED normvars
    /\ UNCHANGED <<mainpc, run, catalog, capacity, items, metadata, ledgerFile, saves, fs, fd>>

\* lines 255-257, 200-205: otherwise; the directory is made, the GET is sent
StartDownload(t) ==
    /\ cpu = t
    /\ pc[t] = "Compare"
    /\ ~SkipDownload(info[t], metadata, KeyOf(t))
    /\ pc' = [pc EXCEPT ![t] = "Request"]
    /\ cpu' = 0
    /\ resp' = NoResp
    /\ UNCHANGED normvars
    /\ UNCHANGED <<mainpc, run, catalog, capacity, items, metadata, ledgerFile, saves, fs, info, fd,
                   semaphore>>

\* line 201 raising inside the try of line 255: mkdir fails, nothing was opened
MkdirFails(t) ==
    /\ cpu = t
    /\ pc[t] = "Compare"
    /\ ~SkipDownload(info[t], metadata, KeyOf(t))
    /\ pc' = [pc EXCEPT ![t] = "Failed"]
    /\ info' = [info EXCEPT ![t] = NoInfo]
    /\ semaphore' = semaphore + 1
    /\ cpu' = 0
    /\ resp' = NoResp
    /\ UNCHANGED normvars
    /\ UNCHANGED <<mainpc, run, catalog, capacity, items, metadata, ledgerFile, saves, fs, fd>>

(***************************************************************************)
(* download_csv                                                             *)
(***************************************************************************)
\* lines 205-207: a success response arrives; tmp.open("wb")
RequestOk(t) ==
    /\ cpu = 0
    /\ pc[t] = "Request"
    /\ fs' = Truncate(fs, Tmp(t))
    /\ fd' = [FdAfterTruncate(fd, Tmp(t)) EXCEPT ![t] = Handle(Tmp(t))]
    /\ pc' = [pc EXCEPT ![t] = "Streaming"]
    /\ UNCHANGED normvars
    /\ UNCHANGED <<mainpc, run, catalog, capacity, items, metadata, ledgerFile, saves, info, semaphore,
                   cpu, resp>>

\* lines 208-210: one more chunk arrives and is written
StreamChunk(t) ==
    /\ cpu = 0
    /\ pc[t] = "Streaming"
    /\ fs' = WriteChunk(fs, fd[t])
    /\ UNCHANGED normvars
    /\ UNCHANGED <<mainpc, run, catalog, capacity, items, metadata, ledgerFile, saves, pc, info, fd,
                   semaphore, cpu, resp>>

\* lines 207-210: the body ends; the last chunk is written, the file closed
StreamEnd(t) ==
    /\ cpu = 0
    /\ pc[t] = "Streaming"
    /\ fs' = CloseWhole(fs, fd[t], Raw(KeyOf(t), run))
    /\ fd' = [fd EXCEPT ![t] = NoFd]
    /\ pc' = [pc EXCEPT ![t] = "Downloaded"]
    /\ UNCHANGED normvars
    /\ UNCHANGED <<mainpc, run, catalog, capacity, items, metadata, ledgerFile, saves, info, semaphore,
                   cpu, resp>>

\* lines 212-217: finally; the temporary file is removed if it is there, and a
\* failure to remove it is swallowed
Cleanup(f, p, removed) == IF f[p] # Absent /\ removed THEN Unlink(f, p) ELSE f
FdAfterCleanup(f, g, p, removed) ==
    IF f[p] # Absent /\ removed THEN FdAfterUnlink(g, p) ELSE g

\* lines 203-217, 282-283: the request, the status check, the stream or the
\* replace raises (error status, connection error, timeout); the open file is
\* closed, finally runs, process_distribution logs the error and returns
DownloadFails(t) ==
    /\ cpu = 0
    /\ pc[t] \in {"Request", "Streaming", "Downloaded"}
    /\ \E removed \in BOOLEAN :
         LET closed == [fd EXCEPT ![t] = NoFd] IN
         /\ fs' = Cleanup(fs, Tmp(t), removed)
         /\ fd' = FdAfterCleanup(fs, closed, Tmp(t), removed)
    /\ pc' = [pc EXCEPT ![t] = "Failed"]
    /\ info' = [info EXCEPT ![t] = NoInfo]
    /\ semaphore' = semaphore + 1
    /\ UNCHANGED normvars
    /\ UNCHANGED <<mainpc, run, catalog, capacity, items, metadata, ledgerFile, saves, cpu, resp>>

\* line 211 raising: tmp.replace finds no temporary file (another task removed
\* or renamed it); finally finds none either
ReplaceMissing(t) ==
    /\ cpu = 0
    /\ pc[t] = "Downloaded"
    /\ ~Exists(Tmp(t))
    /\ pc' = [pc EXCEPT ![t] = "Failed"]
    /\ info' = [info EXCEPT ![t] = NoInfo]
    /\ semaphore' = semaphore + 1
    /\ UNCHANGED normvars
    /\ UNCHANGED <<mainpc, run, catalog, capacity, items, metadata, ledgerFile, saves, fs, fd,
                   cpu, resp>>

\* line 211: tmp.replace(dest_path); download_csv returns
ReplaceDest(t) ==
    /\ cpu = 0
    /\ pc[t] = "Downloaded"
    /\ Exists(Tmp(t))
    /\ fs' = Replace(fs, Tmp(t), Dest(t))
    /\ fd' = FdAfterReplace(fd, Tmp(t), Dest(t))
    /\ pc' = [pc EXCEPT ![t] = "Replaced"]
    /\ cpu' = t
    /\ UNCHANGED normvars
    /\ UNCHANGED <<mainpc, run, catalog, capacity, items, metadata, ledgerFile, saves, info, semaphore,
                   resp>>

(***************************************************************************)
(* process_distribution after the download: pandas and the ledger.  This    *)
(* code has no await: no other task runs until the task has returned.       *)
(***************************************************************************)
\* lines 261-265, 282-283: pd.read_csv raises; the second read_csv, called
\* with errors="replace" (no parameter of read_csv), raises TypeError
ReadFails(t) ==
    /\ cpu = t
    /\ pc[t] = "Replaced"
    /\ pc' = [pc EXCEPT ![t] = "Failed"]
    /\ info' = [info EXCEPT ![t] = NoInfo]
    /\ semaphore' = semaphore + 1
    /\ cpu' = 0
    /\ UNCHANGED normvars
    /\ UNCHANGED <<mainpc, run, catalog, capacity, items, metadata, ledgerFile, saves, fs, fd, resp>>

\* lines 262, 267-269: the file is read, the headers renamed; df.to_csv opens
\* dest_path for writing
RewriteBegin(t) ==
    /\ cpu = t
    /\ pc[t] = "Replaced"
    /\ fs' = Truncate(fs, Dest(t))
    /\ fd' = FdAfterTruncate(fd, Dest(t))
    /\ pc' = [pc EXCEPT ![t] = "Rewriting"]
    /\ UNCHANGED normvars
    /\ UNCHANGED <<mainpc, run, catalog, capacity, items, metadata, ledgerFile, saves, info,
                   semaphore, cpu, resp>>

\* a bug: the entry is written without the validators of the probe
NewEntry_NoValidators(dist, i, now, df) ==
    [url |-> dist.url.id,
     filename |-> Filename(dist),
     last_modified |-> None,
     etag |-> None,
     downloaded_at |-> now,
     rows |-> df.rows,
     cols |-> df.cols]

\* lines 273-281: the entry written for a processed distribution
NewEntry(dist, i, now, df) ==
    [url |-> dist.url.id,
     filename |-> Filename(dist),
     last_modified |-> i.last_modified,
     etag |-> i.etag,
     downloaded_at |-> now,
     rows |-> df.rows,
     cols |-> df.cols]

\* a bug: the new entry replaces the whole ledger
Put_OnlyNew(meta, k, e) == [x \in {k} |-> e]

\* metadata[key] = entry
Put(meta, k, e) == [x \in DOMAIN meta \cup {k} |-> IF x = k THEN e ELSE meta[x]]

\* a bug: the entry is written before the file is rewritten
RewriteFails_WritesEntry(t) ==
    /\ cpu = t
    /\ pc[t] = "Rewriting"
    /\ pc' = [pc EXCEPT ![t] = "Failed"]
    /\ metadata' = Put(metadata, KeyOf(t),
                       NewEntry(catalog[t], info[t], run, [rows |-> 0, cols |-> 0]))
    /\ info' = [info EXCEPT ![t] = NoInfo]
    /\ semaphore' = semaphore + 1
    /\ cpu' = 0
    /\ UNCHANGED normvars
    /\ UNCHANGED <<mainpc, run, catalog, capacity, items, ledgerFile, saves, fs, fd, resp>>

\* lines 269, 282-283: df.to_csv raises part-way (disk full, I/O error)
RewriteFails(t) ==
    /\ cpu = t
    /\ pc[t] = "Rewriting"
    /\ pc' = [pc EXCEPT ![t] = "Failed"]
    /\ info' = [info EXCEPT ![t] = NoInfo]
    /\ semaphore' = semaphore + 1
    /\ cpu' = 0
    /\ UNCHANGED normvars
    /\ UNCHANGED <<mainpc, run, catalog, capacity, items, metadata, ledgerFile, saves, fs, fd, resp>>

\* lines 269-281: df.to_csv completes; the ledger entry is written; the task
\* returns and frees its slot
RewriteEnd(t) ==
    /\ cpu = t
    /\ pc[t] = "Rewriting"
    /\ \E df \in DataFrames :
         /\ fs' = [fs EXCEPT ![Dest(t)] = Norm(KeyOf(t), run)]
         /\ metadata' = Put(metadata, KeyOf(t), NewEntry(catalog[t], info[t], run, df))
    /\ pc' = [pc EXCEPT ![t] = "Processed"]
    /\ info' = [info EXCEPT ![t] = NoInfo]
    /\ semaphore' = semaphore + 1
    /\ cpu' = 0
    /\ UNCHANGED normvars
    /\ UNCHANGED <<mainpc, run, catalog, capacity, items, ledgerFile, saves, fd, resp>>

(***************************************************************************)
(* The program.                                                             *)
(***************************************************************************)
\* before main_async: no run yet, nothing downloaded, no header given
Init ==
    /\ hdr = <<>>
    /\ out = Unset
    /\ out2 = Unset
    /\ mainpc = "idle"
    /\ run = 0
    /\ catalog \in Catalogs
    /\ capacity \in 1..CONCURRENT_DOWNLOADS
    /\ items = "unset"
    /\ metadata = EmptyLedger
    /\ ledgerFile \in {Missing, Corrupt}
    /\ saves = 0
    /\ fs = [p \in Paths |-> Absent]
    /\ pc = [t \in Tasks |-> "Idle"]
    /\ info = [t \in Tasks |-> NoInfo]
    /\ fd = [t \in Tasks |-> NoFd]
    /\ semaphore = 0
    /\ cpu = 0
    /\ resp = NoResp

Next ==
    \/ StartRun
    \/ ListingFails
    \/ ListingArrives
    \/ SaveMetadata
    \/ \E t \in Tasks : Acquire(t)
    \/ \E t \in Tasks : HeadResponds(t)
    \/ \E t \in Tasks : HeadRaises(t)
    \/ \E t \in Tasks : GetResponds(t)
    \/ \E t \in Tasks : GetRaises(t)
    \/ \E t \in Tasks : Skip(t)
    \/ \E t \in Tasks : StartDownload(t)
    \/ \E t \in Tasks : MkdirFails(t)
    \/ \E t \in Tasks : RequestOk(t)
    \/ \E t \in Tasks : StreamChunk(t)
    \/ \E t \in Tasks : StreamEnd(t)
    \/ \E t \in Tasks : DownloadFails(t)
    \/ \E t \in Tasks : ReplaceMissing(t)
    \/ \E t \in Tasks : ReplaceDest(t)
    \/ \E t \in Tasks : ReadFails(t)
    \/ \E t \in Tasks : RewriteBegin(t)
    \/ \E t \in Tasks : RewriteFails(t)
    \/ \E t \in Tasks : RewriteEnd(t)

Spec == Init /\ [][Next]_vars

\* The steps of task t.
TaskStep(t) ==
    \/ Acquire(t)
    \/ HeadResponds(t)
    \/ HeadRaises(t)
    \/ GetResponds(t)
    \/ GetRaises(t)
    \/ Skip(t)
    \/ StartDownload(t)
    \/ MkdirFails(t)
    \/ RequestOk(t)
    \/ StreamChunk(t)
    \/ StreamEnd(t)
    \/ DownloadFails(t)
    \/ ReplaceMissing(t)
    \/ ReplaceDest(t)
    \/ ReadFails(t)
    \/ RewriteBegin(t)
    \/ RewriteFails(t)
    \/ RewriteEnd(t)

\* The event loop runs every task that can run, every request is answered or
\* hits the deadline of its async_timeout (lines 90, 179, 188, 204), and
\* main_async goes on once gather has returned.  Whether the program is started
\* again is up to its user.
Fairness ==
    /\ WF_vars(ListingFails \/ ListingArrives)
    /\ WF_vars(SaveMetadata)
    /\ \A t \in 1..MaxDists : WF_vars(t \in Tasks /\ TaskStep(t))

\* The ledger and the files a run leaves in which every distribution of the
\* catalog was processed, one after the other, with the first validators.
ProcessedLedger(c, r) ==
    [k \in {Key(c[i]) : i \in DOMAIN c} |->
        LET last == CHOOSE i \in DOMAIN c :
                      Key(c[i]) = k /\ \A j \in DOMAIN c : Key(c[j]) = k => j <= i
        IN NewEntry(c[last], [last_modified |-> LastModifiedSeq[1], etag |-> EtagSeq[1]],
                    r, CHOOSE df \in DataFrames : TRUE)]

ProcessedFiles(c, r) ==
    [p \in Paths |->
        IF \E i \in DOMAIN c : DestPath(c[i]) = p
        THEN LET last == CHOOSE i \in DOMAIN c :
                           DestPath(c[i]) = p /\ \A j \in DOMAIN c : DestPath(c[j]) = p => j <= i
             IN Norm(Key(c[last]), r)
        ELSE Absent]

\* after a run that processed every distribution; one more run may follow
LiveInit ==
    /\ hdr = <<>>
    /\ out = Unset
    /\ out2 = Unset
    /\ mainpc = "done"
    /\ run = MaxRuns - 1
    /\ catalog \in Catalogs
    /\ capacity \in 1..CONCURRENT_DOWNLOADS
    /\ items = "found"
    /\ metadata = ProcessedLedger(catalog, run)
    /\ ledgerFile = save_metadata(metadata)
    /\ saves = 1
    /\ fs = ProcessedFiles(catalog, run)
    /\ pc = [t \in Tasks |-> "Processed"]
    /\ info = [t \in Tasks |-> NoInfo]
    /\ fd = [t \in Tasks |-> NoFd]
    /\ semaphore = capacity
    /\ cpu = 0
    /\ resp = NoResp

LiveSpec == LiveInit /\ [][Next]_vars /\ Fairness

(***************************************************************************)
(* The header normalizer on its own.                                        *)
(***************************************************************************)
\* a column name of the data frame read at line 262; the engine is idle
NormInit ==
    /\ hdr \in Strings \cup {NoneHdr}
    /\ out = Unset
    /\ out2 = Unset
    /\ mainpc = "idle"
    /\ run = 0
    /\ catalog = <<>>
    /\ capacity = CONCURRENT_DOWNLOADS
    /\ items = "unset"
    /\ metadata = EmptyLedger
    /\ ledgerFile = Missing
    /\ saves = 0
    /\ fs = [p \in Paths |-> Absent]
    /\ pc = <<>>
    /\ info = <<>>
    /\ fd = <<>>
    /\ semaphore = 0
    /\ cpu = 0
    /\ resp = NoResp

\* headers_to_snakecase_df applies to_snake_case to a column name
Normalize ==
    /\ out = Unset
    /\ out' = to_snake_case(hdr)
    /\ UNCHANGED <<hdr, out2>>
    /\ UNCHANGED sysvars

\* the column name written by one run is normalized again by the next run
Renormalize ==
    /\ out # Unset
    /\ out2 = Unset
    /\ out2' = to_snake_case(out)
    /\ UNCHANGED <<hdr, out>>
    /\ UNCHANGED sysvars

NormNext ==
    \/ Normalize
    \/ Renormalize

SpecNorm == NormInit /\ [][NormNext]_vars

(***************************************************************************)
(* Properties.                                                              *)
(***************************************************************************)
\* the entry of key k in a ledger: a set of none or one
EntryOf(meta, k) == {meta[x] : x \in DOMAIN meta \cap {k}}

\* C1: when the ledger holds an etag for the key and the probe returns a
\* different etag, the comparison never ends in SkippedUnchanged, whatever the
\* last-modified values are: the etag comparison has priority.
C1_EtagMismatchFetches ==
    [][\A t \in Tasks :
          (/\ pc[t] = "Compare"
           /\ pc'[t] # "Compare"
           /\ Prev(metadata, KeyOf(t), "etag") # None
           /\ info[t].etag # None
           /\ info[t].etag # Prev(metadata, KeyOf(t), "etag"))
          => pc'[t] # "SkippedUnchanged"]_vars

\* C2: when the probe returns the non-empty etag the ledger holds for the key,
\* the comparison ends in SkippedUnchanged without a download request, and
\* leaves the ledger, the ledger file and every file as they were; a processed
\* distribution's entry holds the probed etag, and the next run loads what the
\* run before saved, so that a second run with the same etag skips.
C2_SameEtagSkips ==
    [][/\ \A t \in Tasks :
            (/\ pc[t] = "Compare"
             /\ pc'[t] # "Compare"
             /\ EtagUnchanged(info[t], metadata, KeyOf(t)))
            => /\ pc'[t] = "SkippedUnchanged"
               /\ UNCHANGED <<metadata, ledgerFile, fs, fd>>
       /\ \A t \in Tasks :
            (pc[t] \in {"Pending"} \cup Probing /\ pc'[t] # pc[t])
            => UNCHANGED <<metadata, ledgerFile, fs, fd>>
       /\ \A t \in Tasks :
            (pc[t] = "Rewriting" /\ pc'[t] = "Processed")
            => metadata'[KeyOf(t)].etag = info[t].etag
       /\ (mainpc = "done" /\ mainpc' = "listing") => metadata' = metadata]_vars

\* C2 happens: in the second run a task is skipped on the etag alone, against
\* the entry the first run wrote
C2_Witness ==
    \E t \in Tasks :
        /\ run = 2
        /\ pc[t] = "SkippedUnchanged"
        /\ KeyOf(t) \in DOMAIN metadata
        /\ metadata[KeyOf(t)].downloaded_at = 1
        /\ metadata[KeyOf(t)].etag # None
        /\ metadata[KeyOf(t)].last_modified = None

\* C3: the step in which one orchestration fails changes no sibling's state and
\* touches neither the temporary file nor the open handle of a sibling that is
\* downloading.
C3_FailureIsolated ==
    [][\A u \in Tasks :
          (pc[u] \in Fetching /\ pc'[u] = "Failed")
          => \A t \in Tasks \ {u} :
                /\ pc'[t] = pc[t]
                /\ pc[t] \in {"Streaming", "Downloaded"}
                   => fd'[t] = fd[t] /\ fs'[Tmp(t)] = fs[Tmp(t)]]_vars

\* C4: when a fetch fails before its replace, the destination path then holds a
\* whole file or no file.
C4_FailedFetchKeepsDest ==
    [][\A t \in Tasks :
          (pc[t] \in {"Request", "Streaming", "Downloaded"} /\ pc'[t] = "Failed")
          => fs'[Dest(t)] = Absent \/ Complete(fs'[Dest(t)])]_vars

\* C5: the destination of every distribution holds a whole file or no file, in
\* every state.
C5_DestAlwaysWhole ==
    \A t \in Tasks : fs[Dest(t)] = Absent \/ Complete(fs[Dest(t)])

\* C6: the step in which an orchestration fails writes nothing to the ledger,
\* and while the batch runs the entry of a failed orchestration's key is the
\* one loaded at the start of the run (or still absent), unless another
\* orchestration of the same key was processed.
C6_FailedKeepsEntry ==
    /\ [](\A t \in Tasks :
            (/\ mainpc = "gather"
             /\ pc[t] = "Failed"
             /\ ~\E u \in Tasks : KeyOf(u) = KeyOf(t) /\ pc[u] = "Processed")
            => EntryOf(metadata, KeyOf(t)) = EntryOf(load_metadata, KeyOf(t)))
    /\ [][\A t \in Tasks :
            (pc[t] # "Failed" /\ pc'[t] = "Failed")
            => UNCHANGED <<metadata, ledgerFile>>]_vars

\* C6 happens: in the second run an orchestration has failed while rewriting
\* the headers, and the entry of the first run is still there
C6_Witness ==
    \E t \in Tasks :
        /\ run = 2
        /\ mainpc = "gather"
        /\ pc[t] = "Failed"
        /\ fs[Dest(t)] = Partial
        /\ KeyOf(t) \in DOMAIN metadata
        /\ metadata[KeyOf(t)].downloaded_at = 1

\* C7: a run saves the ledger at most once, has saved it exactly once when it
\* is complete, and writes the ledger file only in that save, when every
\* launched orchestration is terminal.
C7_SavedOnceAtEnd ==
    /\ [](/\ saves <= 1
          /\ mainpc = "done" <=> saves = 1
          /\ saves = 1 => \A t \in Tasks : pc[t] \in Terminal \cup {"Idle"})
    /\ [][ledgerFile' # ledgerFile
          => /\ saves' = saves + 1
             /\ \A t \in Tasks : pc[t] \in Terminal \cup {"Idle"}]_vars

\* C7 happens: the ledger was saved after one orchestration was processed and
\* another failed
C7_Witness ==
    /\ mainpc = "done"
    /\ saves = 1
    /\ \E t, u \in Tasks : pc[t] = "Processed" /\ pc[u] = "Failed"

\* C8: normalizing a normalized header changes nothing.
C8_Idempotent == out2 # Unset => out2 = out

\* C9: a normalized header has no leading, trailing or doubled underscore, and
\* is empty only if the header has no letter or digit.
C9_NoStrayUnderscore ==
    out # Unset =>
        /\ out # <<>> => out[1] # "_" /\ out[Len(out)] # "_"
        /\ \A i \in 1..(Len(out) - 1) : ~(out[i] = "_" /\ out[i + 1] = "_")
        /\ out = <<>> => hdr = NoneHdr \/ \A i \in 1..Len(hdr) : ~IsAlnum(hdr[i])

\* C10: a probe whose HEAD attempt failed (it raised, or the server answered
\* that the method is not allowed) has made the fallback request.
C10_FallbackOnHeadFailure ==
    \A t \in Tasks :
        (cpu = t /\ pc[t] = "Compare" /\ resp.head # "ok") => resp.requests = 2

\* C11: when the listing request raised, or its response held no list of
\* items (an object without a known field name, or any other value), the run
\* launches no orchestration, never saves the ledger and leaves the ledger file
\* and every file as they were.
C11_BadListingAborts ==
    /\ [](items \in {"raised", "default", "notlist"}
             => (saves = 0 /\ \A t \in Tasks : pc[t] = "Idle"))
    /\ [][(items \in {"raised", "default", "notlist"} /\ items' = items)
             => UNCHANGED <<ledgerFile, fs>>]_vars

\* the orchestrations holding a slot: those in Probing or Fetching
Active == {t \in Tasks : pc[t] \in Probing \cup Fetching}

\* C12: in a batch the orchestrations in Probing or Fetching are never more
\* than the gate's limit and are exactly the slots taken; a task leaves
\* Pending only by taking a free slot, and a slot is freed only by a task that
\* becomes terminal.
C12_GateBoundsActive ==
    /\ [](mainpc = "gather"
             => (/\ Cardinality(Active) <= capacity
                 /\ capacity <= CONCURRENT_DOWNLOADS
                 /\ semaphore = capacity - Cardinality(Active)))
    /\ [][\A t \in Tasks :
             /\ (pc[t] = "Pending" /\ pc'[t] # "Pending")
                => (semaphore > 0 /\ semaphore' = semaphore - 1 /\ pc'[t] = "Head")
             /\ (pc[t] \in Probing \cup Fetching /\ pc'[t] \notin Probing \cup Fetching)
                => (pc'[t] \in Terminal /\ semaphore' = semaphore + 1)]_vars

\* C12 happens: the gate is full and an orchestration waits in Pending while
\* another one is downloading
C12_Witness ==
    /\ mainpc = "gather"
    /\ semaphore = 0
    /\ \E t, u \in Tasks : pc[t] = "Pending" /\ pc[u] = "Streaming"

\* C13: the orchestrations of a batch have pairwise distinct composite keys.
C13_KeysUnique ==
    mainpc = "gather" =>
        \A t, u \in Tasks :
            (t # u /\ pc[t] # "Idle" /\ pc[u] # "Idle") => KeyOf(t) # KeyOf(u)

\* C14: within a batch the ledger changes only in the step that takes an
\* orchestration from the header rewrite to Processed; that step leaves the
\* normalized file at the destination and writes, for the orchestration's key,
\* an entry with the validators of its probe and the counts of the data frame;
\* and an entry written in this run belongs to a key with a Processed
\* orchestration.
C14_EntryOnlyAtProcessed ==
    /\ [][(mainpc = "gather" /\ metadata' # metadata)
             => \E t \in Tasks :
                  /\ pc[t] = "Rewriting"
                  /\ pc'[t] = "Processed"
                  /\ fs'[Dest(t)] = Norm(KeyOf(t), run)
                  /\ KeyOf(t) \in DOMAIN metadata'
                  /\ metadata'[KeyOf(t)].etag = info[t].etag
                  /\ metadata'[KeyOf(t)].last_modified = info[t].last_modified
                  /\ \E df \in DataFrames :
                       /\ metadata'[KeyOf(t)].rows = df.rows
                       /\ metadata'[KeyOf(t)].cols = df.cols]_vars
    /\ [](mainpc = "gather"
             => \A k \in DOMAIN metadata :
                  metadata[k].downloaded_at = run
                  => \E t \in Tasks : KeyOf(t) = k /\ pc[t] = "Processed")

\* C14 happens: in the second run an orchestration was processed and its entry
\* carries the validators of the second probe
C14_Witness ==
    \E t \in Tasks :
        /\ run = 2
        /\ pc[t] = "Processed"
        /\ fs[Dest(t)] = Norm(KeyOf(t), 2)
        /\ KeyOf(t) \in DOMAIN metadata
        /\ metadata[KeyOf(t)].downloaded_at = 2
        /\ metadata[KeyOf(t)].etag = "e2"
        /\ metadata[KeyOf(t)].last_modified = "m2"

\* C15: when the probe returned no etag or the ledger stores none for the key,
\* the comparison ends in SkippedUnchanged exactly if the probed last-modified
\* is there and equals the stored one; otherwise a download is started (which
\* fails at once if the directory cannot be made).
C15_LastModifiedDecides ==
    [][\A t \in Tasks :
          (/\ pc[t] = "Compare"
           /\ pc'[t] # "Compare"
           /\ (info[t].etag = None \/ Prev(metadata, KeyOf(t), "etag") = None))
          => /\ pc'[t] = "SkippedUnchanged"
                <=> (/\ info[t].last_modified # None
                     /\ info[t].last_modified = Prev(metadata, KeyOf(t), "last_modified"))
             /\ pc'[t] \in {"SkippedUnchanged", "Request", "Failed"}]_vars

\* C15 happens: in the second run an orchestration is skipped whose entry has
\* a last-modified but no etag
C15_Witness ==
    \E t \in Tasks :
        /\ run = 2
        /\ pc[t] = "SkippedUnchanged"
        /\ KeyOf(t) \in DOMAIN metadata
        /\ metadata[KeyOf(t)].downloaded_at = 1
        /\ metadata[KeyOf(t)].etag = None
        /\ metadata[KeyOf(t)].last_modified = "m1"

\* the order of the positions of an orchestration
Rank(p) ==
    CASE p = "Idle" -> 0
      [] p = "Pending" -> 1
      [] p = "Head" -> 2
      [] p = "Get" -> 3
      [] p = "Compare" -> 4
      [] p = "Request" -> 5
      [] p = "Streaming" -> 6
      [] p = "Downloaded" -> 7
      [] p = "Replaced" -> 8
      [] p = "Rewriting" -> 9
      [] OTHER -> 10

\* C16: every launched orchestration eventually is terminal and the run
\* eventually saves the ledger; within a run an orchestration only moves
\* forward (it leaves no terminal state and requests its download at most
\* once), and when the run is done every slot of the gate is free again.
C16_EveryTaskTerminates ==
    /\ \A t \in 1..MaxDists :
          (t \in Tasks /\ pc[t] = "Pending") ~> (t \in Tasks /\ pc[t] \in Terminal)
    /\ (mainpc = "gather") ~> (mainpc = "done" /\ saves = 1)
    /\ [][\A t \in Tasks :
             (pc'[t] # pc[t] /\ mainpc' # "listing") => Rank(pc'[t]) > Rank(pc[t])]_vars
    /\ [](mainpc = "done" => semaphore = capacity)

\* C16 happens: under a gate of one slot a run is done in which one
\* orchestration failed and another, which had to wait for the slot, was
\* processed or skipped
C16_Witness ==
    /\ mainpc = "done"
    /\ capacity = 1
    /\ \E t, u \in Tasks :
          pc[t] = "Failed" /\ pc[u] \in {"Processed", "SkippedUnchanged"}

\* C17: within a run no key leaves the ledger and an entry changes only in the
\* step that takes an orchestration of its key to Processed; an entry loaded at
\* the start whose key has no Processed orchestration is still the loaded one;
\* and the save writes the ledger as it is, so that such an entry is in the
\* new file what it was in the old one.
C17_OtherEntriesKept ==
    /\ [][(mainpc = "gather" /\ mainpc' # "listing")
             => /\ DOMAIN metadata \subseteq DOMAIN metadata'
                /\ \A k \in DOMAIN metadata' :
                     EntryOf(metadata', k) # EntryOf(metadata, k)
                     => \E t \in Tasks :
                          KeyOf(t) = k /\ pc[t] = "Rewriting" /\ pc'[t] = "Processed"]_vars
    /\ [](mainpc = "gather"
             => \A k \in DOMAIN load_metadata :
                  (~\E t \in Tasks : KeyOf(t) = k /\ pc[t] = "Processed")
                  => EntryOf(metadata, k) = EntryOf(load_metadata, k))
    /\ [][(mainpc = "gather" /\ mainpc' = "done")
             => /\ ledgerFile'.st = "ok"
                /\ loads(ledgerFile'.doc) = metadata
                /\ \A k \in DOMAIN load_metadata :
                     (~\E t \in Tasks : KeyOf(t) = k /\ pc[t] = "Processed")
                     => EntryOf(loads(ledgerFile'.doc), k) = EntryOf(load_metadata, k)]_vars

\* C17 happens: the second run is done; it processed one key anew and the
\* entry of another key is still the one of the first run
C17_Witness ==
    /\ run = 2
    /\ mainpc = "done"
    /\ \E t, u \in Tasks :
          /\ KeyOf(t) # KeyOf(u)
          /\ pc[t] = "Processed"
          /\ pc[u] = "Failed"
          /\ {KeyOf(t), KeyOf(u)} \subseteq DOMAIN loads(ledgerFile.doc)
          /\ loads(ledgerFile.doc)[KeyOf(t)].downloaded_at = 2
          /\ loads(ledgerFile.doc)[KeyOf(u)].downloaded_at = 1

\* C18: two orchestrations with different keys that are in Fetching at the
\* same time have different destination paths and different temporary paths.
C18_PathsDistinct ==
    \A t, u \in Tasks :
        (KeyOf(t) # KeyOf(u) /\ pc[t] \in Fetching /\ pc[u] \in Fetching)
        => (Dest(t) # Dest(u) /\ Tmp(t) # Tmp(u))

\* C19: when every orchestration of a batch is terminal, the destination of
\* every orchestration whose key has a ledger entry holds the normalized file
\* of the run that wrote the entry (stated for the orchestrations that share
\* their paths with no other one).
C19_LedgerMatchesDisk ==
    (mainpc \in {"gather", "done"} /\ AllTerminal) =>
        \A t \in Tasks :
            (/\ KeyOf(t) \in DOMAIN metadata
             /\ \A u \in Tasks \ {t} : Dest(u) # Dest(t) /\ Tmp(u) # Tmp(t))
            => fs[Dest(t)] = Norm(KeyOf(t), metadata[KeyOf(t)].downloaded_at)

====
